---- MODULE Spec2Model ----
(***************************************************************************)
(* Model of the real-time inspection pipeline of the workz repository:     *)
(*   CameraManager.detectProductPresence  (frame differencing, hysteresis) *)
(*   CameraManager.start / stop           (stream lifecycle)               *)
(*   Inspector.processFrame               (inspection state machine)       *)
(*   Inspector._getAggregatedResult       (vote aggregation)               *)
(* Nullable JavaScript values are written as sequences of length 0 or 1:   *)
(* Null is <<>> and a value x is <<x>>.                                    *)
(***************************************************************************)
EXTENDS Integers, Sequences, FiniteSets, TLC

Null == <<>>
Some(x) == <<x>>

(***************************************************************************)
(* Bounds of the model (not program constants).                            *)
(***************************************************************************)
\* quietRun is counted up to exitFrameRequired + ExtraQuiet, then saturates
ExtraQuiet == 2
\* detect calls counted after a restart, then saturates
MaxCallsTracked == 2
\* the clock read by Date.now() runs over 0..MaxTime
MaxTime == 1
\* the samples pushed in one inspection are logged up to bufferSize + ExtraPushes
ExtraPushes == 2
\* the buffers handed to the aggregator directly have at most MaxAggLen samples
MaxAggLen == 3
\* direct calls of the aggregator whose results are kept
MaxAggCalls == 2
\* the window of returned edges that is kept
MaxEdges == 2
\* processFrame invocations of app.js that may wait for predict at a time
MaxInFlight == 2

(***************************************************************************)
(* CameraManager: constants of the constructor and of detectProductPresence*)
(***************************************************************************)
motionThreshold == 25
exitFrameRequired == 15
\* presenceThreshold is 0.02, kept as the fraction 2 / 100
presenceThresholdNum == 2
presenceThresholdDen == 100
w == 160
h == 120
\* bytes per pixel of ImageData (r, g, b, a) and the loop stride i += 16
BytesPerPixel == 4
SampleStride == 16
\* video.readyState below HAVE_CURRENT_DATA means no frame can be drawn
HAVE_CURRENT_DATA == 2
ReadyStates == {0, 1, 2, 4}

(***************************************************************************)
(* Frames.  A working frame is the 160x120 ImageData drawn from the video. *)
(* The frames fed to the model are synthetic scenes: a grey background of  *)
(* level bg on which the first obj pixels (raster order) show an object.   *)
(* Channel(f, i) is f.data[i].                                             *)
(***************************************************************************)
Frames ==
    { [obj |-> 0, bg |-> 10],      \* empty belt
      [obj |-> 0, bg |-> 30],      \* empty belt, lighting flicker
      [obj |-> 384, bg |-> 10],    \* a speck: exactly 2% of the samples
      [obj |-> 388, bg |-> 10],    \* a speck: just above 2% of the samples
      [obj |-> 4000, bg |-> 10] }  \* a product

ObjColour == <<200, 180, 160>>

Channel(f, i) ==
    LET p == i \div BytesPerPixel
        c == i % BytesPerPixel
    IN  IF c = 3 THEN 255
        ELSE IF p < f.obj THEN ObjColour[c + 1] ELSE f.bg

DataLength == w * h * BytesPerPixel

Abs(x) == IF x < 0 THEN -x ELSE x

\* the offsets i visited by: for (let i = 0; i < curr.length; i += 16)
SampleOffsets == {SampleStride * k : k \in 0..((DataLength - 1) \div SampleStride)}

\* (dr + dg + db) / 3 > motionThreshold, without the division
PixelChanged(curr, prev, i) ==
    LET dr == Abs(Channel(curr, i) - Channel(prev, i))
        dg == Abs(Channel(curr, i + 1) - Channel(prev, i + 1))
        db == Abs(Channel(curr, i + 2) - Channel(prev, i + 2))
    IN  (dr + dg + db) > 3 * motionThreshold

ChangedPixels(curr, prev) ==
    Cardinality({i \in SampleOffsets : PixelChanged(curr, prev, i)})

\* motionRatio = changedPixels / (totalPixels / 4); hasMotion = motionRatio > 0.02
MotionInverted(changedPixels) ==
    LET totalPixels == w * h
    IN  changedPixels * 4 * presenceThresholdDen < presenceThresholdNum * totalPixels

MotionAbove(changedPixels) ==
    LET totalPixels == w * h
    IN  changedPixels * 4 * presenceThresholdDen > presenceThresholdNum * totalPixels

\* the number of changed sampled pixels of every pair of frames, computed once
ChangedTable ==
    [pair \in Frames \X Frames |-> ChangedPixels(pair[1], pair[2])] @@ <<>>

HasMotion(curr, prev) == MotionAbove(ChangedTable[<<curr, prev>>])

AllFalse == [present |-> FALSE, justEntered |-> FALSE, justLeft |-> FALSE]

VARIABLES
    \* CameraManager
    isActive,          \* this.isActive
    stream,            \* this.stream is set
    srcObject,         \* this.video.srcObject is set
    videoReadyState,   \* this.video.readyState
    startPc,           \* position of the async start(): idle, getUserMedia, play
    prevFrame,         \* this._prevFrame (Null or Some(frame))
    exitFrameCount,    \* this._exitFrameCount
    productPresent,    \* this._productPresent
    presence,          \* the value returned by the last detectProductPresence
    \* observations of the detector's calls
    lastCall,          \* the last detectProductPresence call: inputs and pre-state
    quietRun,          \* evaluated no-motion frames since the last motion frame
    everMotion,        \* some evaluated frame showed motion
    allSame,           \* every frame evaluated so far equals the first one
    readyCalls,        \* detect calls that passed the ready guard (saturating)
    edgeLog,           \* the last MaxEdges edges returned, oldest first
    edgeCount,         \* edges returned so far (saturating)
    wasStopped,        \* stop() ran since the last completed start()
    restarted,         \* a start() completed after a stop()
    callsAfterRestart, \* ready detect calls since that restart (saturating)
    \* Inspector
    state,             \* this.state: "idle" or "inspecting"
    currentInspection, \* this.currentInspection (Null or Some(inspection))
    predictionBuffer,  \* this._predictionBuffer
    outcome,           \* the value returned by the last processFrame
    now,               \* the clock read by Date.now()
    \* observations of the inspector's calls
    lastPF,            \* the last processFrame call: inputs and state before
    phase,             \* progress through the entry / samples / exit cycle
    cycleSamples,      \* the samples delivered so far in that cycle
    pushLog,           \* the samples pushed in the current inspection, in order
    pushOverflow,      \* more samples were pushed than pushLog keeps
    \* direct calls of the aggregator and of manualInspect
    aggResults,        \* the values returned by _getAggregatedResult, in order
    manualResult,      \* Null, or Some(the value returned by the last manualInspect)
    manualArg,         \* Null, or Some(the argument of the last manualInspect)
    \* the frame loop of app.js
    detectionActive,   \* detectionActive
    trainingReady,     \* defectDetector.isTrainingReady()
    inFlight,          \* presence signals of the processFrame invocations
                       \* suspended at await detector.predict, oldest first
    \* observations of the frame loop
    lastLoop,          \* the last loop frame: invocations in flight at its detect
    lastDeliver,       \* the last call of the inspector made by the loop
    lastUi,            \* the last reset or clear request and the state it met
    \* saving and statistics
    autoSave,          \* autoSave of app.js
    stats,             \* Inspector.stats
    records,           \* the 'inspections' object store, in insertion order, as
                       \* seen by every request issued from now on
    awaiting           \* the callers suspended at an IndexedDB request whose
                       \* continuation writes state, oldest request first

camVars == <<isActive, stream, srcObject, videoReadyState, startPc>>
detVars == <<prevFrame, exitFrameCount, productPresent, presence>>
detObs == <<lastCall, quietRun, everMotion, allSame, readyCalls, edgeLog, edgeCount>>
restartObs == <<wasStopped, restarted, callsAfterRestart>>
inspVars == <<state, currentInspection, predictionBuffer, outcome>>
pushObs == <<pushLog, pushOverflow>>
directVars == <<aggResults, manualResult, manualArg>>
inspObs == <<lastPF, phase, cycleSamples, pushObs, directVars>>
loopVars == <<detectionActive, trainingReady, inFlight, lastLoop, lastDeliver, lastUi>>
statVars == <<autoSave, stats, records, awaiting>>
vars == <<camVars, detVars, detObs, restartObs, inspVars, inspObs, now, loopVars, statVars>>

NoCall == [ready |-> FALSE, compared |-> FALSE, motion |-> FALSE,
           frame |-> Null, presentBefore |-> FALSE, countBefore |-> 0]

InitCamera ==
    /\ isActive = FALSE
    /\ stream = FALSE
    /\ srcObject = FALSE
    /\ videoReadyState = 0
    /\ startPc = "idle"
    /\ prevFrame = Null
    /\ exitFrameCount = 0
    /\ productPresent = FALSE
    /\ presence = AllFalse
    /\ lastCall = NoCall
    /\ quietRun = 0
    /\ everMotion = FALSE
    /\ allSame = TRUE
    /\ readyCalls = 0
    /\ edgeLog = <<>>
    /\ edgeCount = 0
    /\ wasStopped = FALSE
    /\ restarted = FALSE
    /\ callsAfterRestart = 0


Min(a, b) == IF a < b THEN a ELSE b

QuietCap == exitFrameRequired + ExtraQuiet

(***************************************************************************)
(* detectProductPresence, lines 137-154: the hysteresis over hasMotion.    *)
(* Each branch gives the new _productPresent, the new _exitFrameCount and  *)
(* the returned result.                                                    *)
(***************************************************************************)
MotionBranchNoReset(present, count) ==
    [productPresent |-> TRUE,
     exitFrameCount |-> count,
     result |-> [present |-> TRUE, justEntered |-> ~present, justLeft |-> FALSE]]

\* lines 139-143 with justEntered set on every motion frame
MotionBranchAlwaysEnters(present, count) ==
    [productPresent |-> TRUE,
     exitFrameCount |-> 0,
     result |-> [present |-> TRUE, justEntered |-> TRUE, justLeft |-> FALSE]]

MotionBranch(present, count) ==
    [productPresent |-> TRUE,
     exitFrameCount |-> 0,
     result |-> [present |-> TRUE, justEntered |-> ~present, justLeft |-> FALSE]]

QuietBranchOffByOne(present, count) ==
    IF present
    THEN IF count + 1 > exitFrameRequired
         THEN [productPresent |-> FALSE,
               exitFrameCount |-> count + 1,
               result |-> [present |-> FALSE, justEntered |-> FALSE, justLeft |-> TRUE]]
         ELSE [productPresent |-> TRUE,
               exitFrameCount |-> count + 1,
               result |-> [present |-> TRUE, justEntered |-> FALSE, justLeft |-> FALSE]]
    ELSE [productPresent |-> FALSE, exitFrameCount |-> count, result |-> AllFalse]

QuietBranchEarly(present, count) ==
    IF present
    THEN IF count + 1 >= exitFrameRequired - 1
         THEN [productPresent |-> FALSE,
               exitFrameCount |-> count + 1,
               result |-> [present |-> FALSE, justEntered |-> FALSE, justLeft |-> TRUE]]
         ELSE [productPresent |-> TRUE,
               exitFrameCount |-> count + 1,
               result |-> [present |-> TRUE, justEntered |-> FALSE, justLeft |-> FALSE]]
    ELSE [productPresent |-> FALSE, exitFrameCount |-> count, result |-> AllFalse]

\* lines 145-154 with the counter running while no product is present
QuietBranchCountsAbsent(present, count) ==
    IF present
    THEN IF count + 1 >= exitFrameRequired
         THEN [productPresent |-> FALSE,
               exitFrameCount |-> count + 1,
               result |-> [present |-> FALSE, justEntered |-> FALSE, justLeft |-> TRUE]]
         ELSE [productPresent |-> TRUE,
               exitFrameCount |-> count + 1,
               result |-> [present |-> TRUE, justEntered |-> FALSE, justLeft |-> FALSE]]
    ELSE [productPresent |-> FALSE, exitFrameCount |-> count + 1, result |-> AllFalse]

\* lines 145-154 without result.present = true while still counting
QuietBranchHidesWhileCounting(present, count) ==
    IF present
    THEN IF count + 1 >= exitFrameRequired
         THEN [productPresent |-> FALSE,
               exitFrameCount |-> count + 1,
               result |-> [present |-> FALSE, justEntered |-> FALSE, justLeft |-> TRUE]]
         ELSE [productPresent |-> TRUE,
               exitFrameCount |-> count + 1,
               result |-> AllFalse]
    ELSE [productPresent |-> FALSE, exitFrameCount |-> count, result |-> AllFalse]

QuietBranch(present, count) ==
    IF present
    THEN IF count + 1 >= exitFrameRequired
         THEN [productPresent |-> FALSE,
               exitFrameCount |-> count + 1,
               result |-> [present |-> FALSE, justEntered |-> FALSE, justLeft |-> TRUE]]
         ELSE [productPresent |-> TRUE,
               exitFrameCount |-> count + 1,
               result |-> [present |-> TRUE, justEntered |-> FALSE, justLeft |-> FALSE]]
    ELSE [productPresent |-> FALSE, exitFrameCount |-> count, result |-> AllFalse]

\* a re-entry check that runs in the same evaluation as the exit check
HysteresisFlipTwice(hasMotion, present, count) ==
    LET q == QuietBranch(present, count)
    IN  IF hasMotion
        THEN MotionBranch(present, count)
        ELSE IF q.result.justLeft
             THEN [q EXCEPT !.result.justEntered = TRUE]
             ELSE q

Hysteresis(hasMotion, present, count) ==
    IF hasMotion THEN MotionBranch(present, count) ELSE QuietBranch(present, count)

\* line 104: the guard of detectProductPresence (and of captureFrame)
CameraReady == isActive /\ videoReadyState >= HAVE_CURRENT_DATA

CountReadyCall ==
    /\ readyCalls' = Min(readyCalls + 1, MaxCallsTracked)
    /\ callsAfterRestart' =
          IF restarted THEN Min(callsAfterRestart + 1, MaxCallsTracked)
          ELSE callsAfterRestart

\* the edge a returned signal carries, if any
EdgeOf(result) ==
    IF result.justEntered THEN <<"entered">>
    ELSE IF result.justLeft THEN <<"left">> ELSE <<>>

LogEdge(result) ==
    LET log == edgeLog \o EdgeOf(result)
    IN  /\ edgeLog' = (IF Len(log) > MaxEdges THEN Tail(log) ELSE log)
        /\ edgeCount' = Min(edgeCount + Len(EdgeOf(result)), MaxEdges + 1)

\* lines 104-106: camera inactive or video not ready
DetectNotReady ==
    /\ presence' = AllFalse
    /\ lastCall' = NoCall
    /\ UNCHANGED <<prevFrame, exitFrameCount, productPresent>>
    /\ UNCHANGED <<quietRun, everMotion, allSame, readyCalls, callsAfterRestart>>
    /\ UNCHANGED <<edgeLog, edgeCount>>

\* lines 117-119 and 157-158 with this._prevFrame === null
DetectColdStartKeepNull(f) ==
    /\ presence' = AllFalse
    /\ prevFrame' = Null
    /\ lastCall' = [ready |-> TRUE, compared |-> FALSE, motion |-> FALSE,
                    frame |-> Some(f), presentBefore |-> productPresent,
                    countBefore |-> exitFrameCount]
    /\ CountReadyCall
    /\ UNCHANGED <<exitFrameCount, productPresent, quietRun, everMotion, allSame>>
    /\ UNCHANGED <<edgeLog, edgeCount>>

DetectColdStart(f) ==
    /\ presence' = AllFalse
    /\ prevFrame' = Some(f)
    /\ lastCall' = [ready |-> TRUE, compared |-> FALSE, motion |-> FALSE,
                    frame |-> Some(f), presentBefore |-> productPresent,
                    countBefore |-> exitFrameCount]
    /\ CountReadyCall
    /\ UNCHANGED <<exitFrameCount, productPresent, quietRun, everMotion, allSame>>
    /\ UNCHANGED <<edgeLog, edgeCount>>

\* lines 119-158 with a previous frame stored
DetectCompare(f) ==
    LET hasMotion == HasMotion(f, prevFrame[1])
        hy == Hysteresis(hasMotion, productPresent, exitFrameCount)
    IN  /\ productPresent' = hy.productPresent
        /\ exitFrameCount' = hy.exitFrameCount
        /\ presence' = hy.result
        /\ prevFrame' = Some(f)
        /\ lastCall' = [ready |-> TRUE, compared |-> TRUE, motion |-> hasMotion,
                        frame |-> Some(f), presentBefore |-> productPresent,
                        countBefore |-> exitFrameCount]
        /\ quietRun' = IF hasMotion THEN 0 ELSE Min(quietRun + 1, QuietCap)
        /\ everMotion' = (everMotion \/ hasMotion)
        /\ allSame' = (allSame /\ Some(f) = prevFrame)
        /\ LogEdge(hy.result)
        /\ CountReadyCall

\* one call of detectProductPresence while the video shows f
Detect(f) ==
    IF ~CameraReady THEN DetectNotReady
    ELSE IF prevFrame = Null THEN DetectColdStart(f)
    ELSE DetectCompare(f)

\* CameraManager.detectProductPresence; f is what the video shows at the call
DetectProductPresence ==
    /\ \E f \in Frames : Detect(f)
    /\ UNCHANGED <<camVars, wasStopped, restarted>>
    /\ UNCHANGED <<inspVars, inspObs, now, loopVars, statVars>>

(***************************************************************************)
(* CameraManager.start (async, two awaits) and CameraManager.stop.         *)
(***************************************************************************)
\* start() is called and suspends at await getUserMedia
StartCall ==
    /\ startPc = "idle"
    /\ startPc' = "getUserMedia"
    /\ UNCHANGED <<isActive, stream, srcObject, videoReadyState>>
    /\ UNCHANGED <<detVars, detObs, restartObs>>
    /\ UNCHANGED <<inspVars, inspObs, now, loopVars, statVars>>

\* getUserMedia resolves: lines 32-34, suspends at await video.play()
GetUserMediaResolve ==
    /\ startPc = "getUserMedia"
    /\ stream' = TRUE
    /\ srcObject' = TRUE
    /\ videoReadyState' = 0
    /\ startPc' = "play"
    /\ UNCHANGED <<isActive, detVars, detObs, restartObs>>
    /\ UNCHANGED <<inspVars, inspObs, now, loopVars, statVars>>

\* either await throws: lines 43-46
StartFails ==
    /\ startPc \in {"getUserMedia", "play"}
    /\ startPc' = "idle"
    /\ UNCHANGED <<isActive, stream, srcObject, videoReadyState>>
    /\ UNCHANGED <<detVars, detObs, restartObs>>
    /\ UNCHANGED <<inspVars, inspObs, now, loopVars, statVars>>

\* video.play() resolves (playback has begun): lines 35-42
PlayResolve ==
    /\ startPc = "play"
    /\ srcObject
    /\ videoReadyState > HAVE_CURRENT_DATA
    /\ isActive' = TRUE
    /\ startPc' = "idle"
    /\ restarted' = (restarted \/ wasStopped)
    /\ callsAfterRestart' = IF wasStopped THEN 0 ELSE callsAfterRestart
    /\ wasStopped' = FALSE
    /\ UNCHANGED <<stream, srcObject, videoReadyState, detVars, detObs>>
    /\ UNCHANGED <<inspVars, inspObs, now, loopVars, statVars>>

\* CameraManager.stop, lines 49-57
Stop ==
    /\ stream' = FALSE
    /\ isActive' = FALSE
    /\ srcObject' = FALSE
    /\ videoReadyState' = 0
    /\ wasStopped' = TRUE
    /\ restarted' = FALSE
    /\ callsAfterRestart' = 0
    /\ UNCHANGED <<startPc, detVars, detObs>>
    /\ UNCHANGED <<inspVars, inspObs, now, loopVars, statVars>>

\* the browser moves video.readyState as stream data arrives or stalls
VideoReadyStateChange ==
    /\ srcObject
    /\ \E r \in ReadyStates : videoReadyState' = r
    /\ UNCHANGED <<isActive, stream, srcObject, startPc>>
    /\ UNCHANGED <<detVars, detObs, restartObs>>
    /\ UNCHANGED <<inspVars, inspObs, now, loopVars, statVars>>

NextDetector ==
    \/ DetectProductPresence
    \/ StartCall
    \/ GetUserMediaResolve
    \/ StartFails
    \/ PlayResolve
    \/ Stop
    \/ VideoReadyStateChange

(***************************************************************************)
(* Inspector.                                                              *)
(***************************************************************************)
bufferSize == 8

\* classifier samples: confidence in hundredths (0.9 is 90)
Sample(l, c) == [label |-> l, confidence |-> c]
Samples == {Sample("ok", 90), Sample("scratch", 80)}
Predictions == {Null} \cup {Some(x) : x \in Samples}

\* the presence signals detectProductPresence can return
PresenceSignals ==
    { AllFalse,
      [present |-> TRUE, justEntered |-> TRUE, justLeft |-> FALSE],
      [present |-> TRUE, justEntered |-> FALSE, justLeft |-> FALSE],
      [present |-> FALSE, justEntered |-> FALSE, justLeft |-> TRUE] }

RECURSIVE GCD(_, _)
GCD(a, b) == IF b = 0 THEN a ELSE GCD(b, a % b)

\* the quotient n / d of two numbers, kept exact as a reduced fraction
Quotient(n, d) == [num |-> n \div GCD(n, d), den |-> d \div GCD(n, d)]

(***************************************************************************)
(* _getAggregatedResult, lines 70-100.                                     *)
(***************************************************************************)
Votes(buf, label) == Cardinality({i \in 1..Len(buf) : buf[i].label = label})

RECURSIVE ConfidenceSum(_, _)
ConfidenceSum(buf, label) ==
    IF buf = <<>> THEN 0
    ELSE (IF Head(buf).label = label THEN Head(buf).confidence ELSE 0)
         + ConfidenceSum(Tail(buf), label)

\* the keys of votes in the order they were first written (lines 76-79)
RECURSIVE FirstSeen(_, _)
FirstSeen(buf, seen) ==
    IF buf = <<>> THEN seen
    ELSE IF \E i \in 1..Len(seen) : seen[i] = Head(buf).label
         THEN FirstSeen(Tail(buf), seen)
         ELSE FirstSeen(Tail(buf), Append(seen, Head(buf).label))

\* a property key that is a canonical array index ("7") has that number,
\* any other key has none (-1); the keys the model uses are listed
ArrayIndex(label) ==
    CASE label = "7" -> 7
      [] label = "12" -> 12
      [] OTHER -> -1

RECURSIVE SortedIndexKeys(_)
SortedIndexKeys(keys) ==
    IF keys = {} THEN <<>>
    ELSE LET k == CHOOSE x \in keys : \A y \in keys : ArrayIndex(x) <= ArrayIndex(y)
         IN  <<k>> \o SortedIndexKeys(keys \ {k})

\* Object.entries(votes), line 84: array-index keys ascending, then the
\* other keys in insertion order
EntriesOrder(buf) ==
    LET seen == FirstSeen(buf, <<>>)
        idx == {seen[i] : i \in {j \in 1..Len(seen) : ArrayIndex(seen[j]) >= 0}}
    IN  SortedIndexKeys(idx) \o SelectSeq(seen, LAMBDA l : ArrayIndex(l) < 0)

\* lines 82-89: the first entry with strictly more votes than all before
RECURSIVE BestLabel(_, _, _, _)
BestLabel(buf, entries, bestLabel, bestVotes) ==
    IF entries = <<>> THEN bestLabel
    ELSE IF Votes(buf, Head(entries)) > bestVotes
         THEN BestLabel(buf, Tail(entries), Head(entries), Votes(buf, Head(entries)))
         ELSE BestLabel(buf, Tail(entries), bestLabel, bestVotes)

\* lines 93-99 with defectType: bestLabel
VerdictTypeAlways(label, confidence) ==
    [label |-> label,
     confidence |-> confidence,
     isDefective |-> label # "ok",
     defectType |-> Some(label),
     status |-> IF label = "ok" THEN "ok" ELSE "defective"]

\* lines 93-99
Verdict(label, confidence) ==
    [label |-> label,
     confidence |-> confidence,
     isDefective |-> label # "ok",
     defectType |-> IF label # "ok" THEN Some(label) ELSE Null,
     status |-> IF label = "ok" THEN "ok" ELSE "defective"]

\* lines 70-100 without line 71: no vote is counted, bestLabel stays 'ok'
\* and the average is 0 / 0
AggregateNoEmptyCheck(buf) ==
    IF Len(buf) = 0 THEN Some(Verdict("ok", [num |-> 0, den |-> 0]))
    ELSE LET bestLabel == BestLabel(buf, EntriesOrder(buf), "ok", 0)
             avgConfidence == Quotient(ConfidenceSum(buf, bestLabel), Votes(buf, bestLabel))
         IN  Some(Verdict(bestLabel, avgConfidence))

\* lines 70-100 with the sum of all confidences divided by the buffer length
AggregateMeanOfAll(buf) ==
    IF Len(buf) = 0 THEN Null
    ELSE LET bestLabel == BestLabel(buf, EntriesOrder(buf), "ok", 0)
             total == ConfidenceSum(buf, "ok") + ConfidenceSum(buf, "scratch")
                      + ConfidenceSum(buf, "7") + ConfidenceSum(buf, "12")
         IN  Some(Verdict(bestLabel, Quotient(total, Len(buf))))

Aggregate(buf) ==
    IF Len(buf) = 0 THEN Null
    ELSE LET bestLabel == BestLabel(buf, EntriesOrder(buf), "ok", 0)
             avgConfidence == Quotient(ConfidenceSum(buf, bestLabel), Votes(buf, bestLabel))
         IN  Some(Verdict(bestLabel, avgConfidence))

(***************************************************************************)
(* processFrame, lines 23-65.  The three steps run in sequence on the      *)
(* machine m = [state, currentInspection, buffer] and the result r.        *)
(***************************************************************************)
NoOutcome == [stateChanged |-> FALSE, inspectionComplete |-> FALSE,
              currentResult |-> Null, finalResultSet |-> FALSE,
              finalResult |-> Null]

NewInspection(t) == [startTime |-> t, predictions |-> <<>>, thumbnail |-> Null]

\* lines 31-40 without result.stateChanged = true
EnterStepSilent(m, r, presenceInfo, t) ==
    IF presenceInfo.justEntered
    THEN [m |-> [state |-> "inspecting",
                 currentInspection |-> Some(NewInspection(t)),
                 buffer |-> <<>>],
          r |-> r]
    ELSE [m |-> m, r |-> r]

\* lines 31-40
EnterStep(m, r, presenceInfo, t) ==
    IF presenceInfo.justEntered
    THEN [m |-> [state |-> "inspecting",
                 currentInspection |-> Some(NewInspection(t)),
                 buffer |-> <<>>],
          r |-> [r EXCEPT !.stateChanged = TRUE]]
    ELSE [m |-> m, r |-> r]

\* lines 44-49 with unshift in place of push
PushSampleFront(buf, x) ==
    LET pushed == <<x>> \o buf
    IN  IF Len(pushed) > bufferSize THEN SubSeq(pushed, 1, bufferSize) ELSE pushed

\* lines 44-49 without the shift
PushSampleNoEvict(buf, x) == Append(buf, x)

\* lines 44-49 with pop in place of shift
PushSamplePop(buf, x) ==
    LET pushed == Append(buf, x)
    IN  IF Len(pushed) > bufferSize THEN SubSeq(pushed, 1, bufferSize) ELSE pushed

\* lines 44-49: push, then keep only the last bufferSize predictions
PushSample(buf, x) ==
    LET pushed == Append(buf, x)
    IN  IF Len(pushed) > bufferSize THEN Tail(pushed) ELSE pushed

\* lines 43-52 without the test of this.state
AccumulateStepAnyState(m, r, prediction) ==
    IF prediction # Null
    THEN LET buf == PushSample(m.buffer, prediction[1])
         IN  [m |-> [m EXCEPT !.buffer = buf],
              r |-> [r EXCEPT !.currentResult = Aggregate(buf)]]
    ELSE [m |-> m, r |-> r]

\* lines 43-52 with the buffer emptied when there is no prediction
AccumulateStepNullClears(m, r, prediction) ==
    IF m.state = "inspecting" /\ prediction # Null
    THEN LET buf == PushSample(m.buffer, prediction[1])
         IN  [m |-> [m EXCEPT !.buffer = buf],
              r |-> [r EXCEPT !.currentResult = Aggregate(buf)]]
    ELSE [m |-> [m EXCEPT !.buffer = <<>>], r |-> r]

\* lines 43-52
AccumulateStep(m, r, prediction) ==
    IF m.state = "inspecting" /\ prediction # Null
    THEN LET buf == PushSample(m.buffer, prediction[1])
         IN  [m |-> [m EXCEPT !.buffer = buf],
              r |-> [r EXCEPT !.currentResult = Aggregate(buf)]]
    ELSE [m |-> m, r |-> r]

\* lines 55-62 without this.state = 'idle'
FinalizeStepStays(m, r, presenceInfo) ==
    IF presenceInfo.justLeft /\ m.state = "inspecting"
    THEN [m |-> [state |-> "inspecting", currentInspection |-> Null, buffer |-> <<>>],
          r |-> [r EXCEPT !.inspectionComplete = TRUE,
                          !.finalResultSet = TRUE,
                          !.finalResult = Aggregate(m.buffer),
                          !.stateChanged = TRUE]]
    ELSE [m |-> m, r |-> r]

\* lines 55-62 with the buffer cleared before it is aggregated
FinalizeStepClearFirst(m, r, presenceInfo) ==
    IF presenceInfo.justLeft /\ m.state = "inspecting"
    THEN [m |-> [state |-> "idle", currentInspection |-> Null, buffer |-> <<>>],
          r |-> [r EXCEPT !.inspectionComplete = TRUE,
                          !.finalResultSet = TRUE,
                          !.finalResult = Aggregate(<<>>),
                          !.stateChanged = TRUE]]
    ELSE [m |-> m, r |-> r]

\* lines 55-62
FinalizeStep(m, r, presenceInfo) ==
    IF presenceInfo.justLeft /\ m.state = "inspecting"
    THEN [m |-> [state |-> "idle", currentInspection |-> Null, buffer |-> <<>>],
          r |-> [r EXCEPT !.inspectionComplete = TRUE,
                          !.finalResultSet = TRUE,
                          !.finalResult = Aggregate(m.buffer),
                          !.stateChanged = TRUE]]
    ELSE [m |-> m, r |-> r]

Machine == [state |-> state, currentInspection |-> currentInspection,
            buffer |-> predictionBuffer]

\* processFrame returning at once when there is no prediction
ProcessFrameResultSkipNull(m, prediction, presenceInfo, t) ==
    IF prediction = Null THEN [m |-> m, r |-> NoOutcome]
    ELSE LET s1 == EnterStep(m, NoOutcome, presenceInfo, t)
             s2 == AccumulateStep(s1.m, s1.r, prediction)
         IN  FinalizeStep(s2.m, s2.r, presenceInfo)

\* lines 30-62 with the accumulation block ahead of the entry block
ProcessFrameResultPushFirst(m, prediction, presenceInfo, t) ==
    LET s1 == AccumulateStep(m, NoOutcome, prediction)
        s2 == EnterStep(s1.m, s1.r, presenceInfo, t)
    IN  FinalizeStep(s2.m, s2.r, presenceInfo)

ProcessFrameResult(m, prediction, presenceInfo, t) ==
    LET s1 == EnterStep(m, NoOutcome, presenceInfo, t)
        s2 == AccumulateStep(s1.m, s1.r, prediction)
    IN  FinalizeStep(s2.m, s2.r, presenceInfo)

\* the cycle entry, CycleSamples sample calls, exit that the calls follow
CycleSamples == 3

NextPhase(prediction, presenceInfo) ==
    IF state = "idle" /\ presenceInfo.justEntered /\ ~presenceInfo.justLeft
       /\ prediction = Null
    THEN 1
    ELSE IF phase \in 1..CycleSamples /\ prediction # Null
            /\ ~presenceInfo.justEntered /\ ~presenceInfo.justLeft
    THEN phase + 1
    ELSE IF phase = CycleSamples + 1 /\ prediction = Null
            /\ presenceInfo.justLeft /\ ~presenceInfo.justEntered
    THEN phase + 1
    ELSE 0

\* the effect of processFrame(prediction, presenceInfo) on the inspector
ProcessFrameCall(prediction, presenceInfo) ==
    LET res == ProcessFrameResult(Machine, prediction, presenceInfo, now)
        ph == NextPhase(prediction, presenceInfo)
    IN  /\ state' = res.m.state
        /\ currentInspection' = res.m.currentInspection
        /\ predictionBuffer' = res.m.buffer
        /\ outcome' = res.r
        /\ lastPF' = [called |-> TRUE, prediction |-> prediction,
                      justEntered |-> presenceInfo.justEntered,
                      justLeft |-> presenceInfo.justLeft,
                      stateBefore |-> state, time |-> now]
        /\ phase' = ph
        /\ cycleSamples' =
              IF ph \in 2..(CycleSamples + 1)
              THEN Append(cycleSamples, prediction[1])
              ELSE IF ph = CycleSamples + 2 THEN cycleSamples ELSE <<>>

\* Inspector.processFrame(prediction, presenceInfo)
ProcessFrame ==
    /\ \E prediction \in Predictions, presenceInfo \in PresenceSignals :
          ProcessFrameCall(prediction, presenceInfo)
    /\ UNCHANGED <<camVars, detVars, detObs, restartObs, now, loopVars, statVars>>
    /\ UNCHANGED <<pushObs, directVars>>

\* the log of the samples pushed in the current inspection after a call:
\* emptied at entry and at exit, extended by the sample of a call made
\* while inspecting
PushLogCap == bufferSize + ExtraPushes

EmptyLog == [log |-> <<>>, overflow |-> FALSE]

LogAfter(prediction, presenceInfo) ==
    LET inspecting == presenceInfo.justEntered \/ state = "inspecting"
        base == IF presenceInfo.justEntered THEN EmptyLog
                ELSE [log |-> pushLog, overflow |-> pushOverflow]
        pushed == IF inspecting /\ prediction # Null
                  THEN IF ~base.overflow /\ Len(base.log) < PushLogCap
                       THEN [log |-> Append(base.log, prediction[1]),
                             overflow |-> FALSE]
                       ELSE [log |-> <<>>, overflow |-> TRUE]
                  ELSE base
    IN  IF presenceInfo.justLeft /\ inspecting THEN EmptyLog ELSE pushed

\* Inspector.processFrame(prediction, presenceInfo), with the pushes logged
ProcessFrameLogged ==
    /\ \E prediction \in Predictions, presenceInfo \in PresenceSignals :
          /\ ProcessFrameCall(prediction, presenceInfo)
          /\ pushLog' = LogAfter(prediction, presenceInfo).log
          /\ pushOverflow' = LogAfter(prediction, presenceInfo).overflow
    /\ UNCHANGED <<camVars, detVars, detObs, restartObs, now, directVars, loopVars, statVars>>

\* time passes
Tick ==
    /\ now < MaxTime
    /\ now' = now + 1
    /\ UNCHANGED <<camVars, detVars, detObs, restartObs, inspVars, inspObs, loopVars, statVars>>

(***************************************************************************)
(* Saving and statistics: the save branch of processFrame in app.js (lines *)
(* 256-259), Inspector.saveInspection and resetStats (part_001 lines       *)
(* 105-131 and 147-150) and the 'inspections' store of StorageManager.     *)
(* Requests on one object store in readwrite transactions take effect in   *)
(* the order they were issued and their callers resume in that order, so   *)
(* the store is written when the request is issued and the callers wait in *)
(* a queue.                                                                *)
(***************************************************************************)
\* saves issued before the model stops saving
MaxSaved == 2
\* callers suspended at a storage request at one time
MaxPending == 2
\* samples delivered to one inspection before its product leaves
MaxBuffered == 2

EmptyCategories == [k \in {} |-> 0]

\* part_001 line 9 and line 148
ZeroStats == [total |-> 0, ok |-> 0, defective |-> 0, defectRate |-> 0,
              categories |-> EmptyCategories]

\* categories[cat] || 0
CategoryCount(categories, cat) ==
    IF cat \in DOMAIN categories THEN categories[cat] ELSE 0

\* categories[cat] = (categories[cat] || 0) + 1
CategoryAdded(categories, cat) ==
    [k \in DOMAIN categories \cup {cat} |-> CategoryCount(categories, k)
                                             + (IF k = cat THEN 1 ELSE 0)]

\* defectType || 'unknown'
CategoryOf(defectType) == IF defectType = Null THEN "unknown" ELSE defectType[1]

\* ((defective / total) * 100).toFixed(1), as a number of tenths of a percent
DefectRate(defective, total) ==
    IF total > 0 THEN (2000 * defective + total) \div (2 * total) ELSE 0

\* part_001 lines 117-128 with the category count left alone
StatsAfterSaveNoCategory(s, result) ==
    LET total == s.total + 1
        defective == s.defective + (IF result.isDefective THEN 1 ELSE 0)
    IN  [total |-> total,
         ok |-> s.ok + (IF result.isDefective THEN 0 ELSE 1),
         defective |-> defective,
         defectRate |-> DefectRate(defective, total),
         categories |-> s.categories]

\* part_001 lines 117-128
StatsAfterSave(s, result) ==
    LET total == s.total + 1
        defective == s.defective + (IF result.isDefective THEN 1 ELSE 0)
    IN  [total |-> total,
         ok |-> s.ok + (IF result.isDefective THEN 0 ELSE 1),
         defective |-> defective,
         defectRate |-> DefectRate(defective, total),
         categories |-> IF result.isDefective
                        THEN CategoryAdded(s.categories, CategoryOf(result.defectType))
                        ELSE s.categories]

\* StorageManager.getInspectionStats, app.js lines 507-526
Defectives(recs) == {i \in 1..Len(recs) : recs[i].status # "ok"}

GetInspectionStats(recs) ==
    LET defective == Cardinality(Defectives(recs))
        cats == {CategoryOf(recs[i].defectType) : i \in Defectives(recs)}
    IN  [total |-> Len(recs),
         ok |-> Len(recs) - defective,
         defective |-> defective,
         defectRate |-> DefectRate(defective, Len(recs)),
         categories |->
             [k \in cats |-> Cardinality({i \in Defectives(recs) :
                                            CategoryOf(recs[i].defectType) = k})]]

\* CameraManager.captureThumbnail: null when the camera is not active, else
\* a JPEG data URL
CaptureThumbnail == IF isActive THEN Some("jpeg") ELSE Null

\* part_001 lines 106-113, with inspection the value of this.currentInspection
\* and t the value of Date.now() when saveInspection is called
SaveRecord(result, thumbnail, inspection, t) ==
    [timestamp |-> t,
     status |-> result.status,
     defectType |-> result.defectType,
     confidence |-> result.confidence,
     duration |-> IF inspection # Null THEN t - inspection[1].startTime ELSE 0,
     thumbnail |-> thumbnail]

PendingSaves == Cardinality({i \in 1..Len(awaiting) : awaiting[i].kind = "save"})

\* app.js line 256 with the test of autoSave left out
SaveConditionIgnoresAutosave(r) == r.inspectionComplete /\ r.finalResult # Null

\* app.js line 256
SaveCondition(r) == r.inspectionComplete /\ r.finalResult # Null /\ autoSave

\* app.js lines 256-259 after inspector.processFrame has returned outcome':
\* saveInspection builds the record, issues the add request and suspends
SaveBranch ==
    /\ IF SaveCondition(outcome')
       THEN LET record == SaveRecord(outcome'.finalResult[1], CaptureThumbnail,
                                     currentInspection', now)
            IN  /\ Len(records) < MaxSaved
                /\ stats.total + PendingSaves < MaxSaved
                /\ Len(awaiting) < MaxPending
                /\ records' = Append(records, record)
                /\ awaiting' = Append(awaiting, [kind |-> "save",
                                                 result |-> outcome'.finalResult])
       ELSE UNCHANGED <<records, awaiting>>
    /\ UNCHANGED <<autoSave, stats>>

\* processFrame of app.js from the call of inspector.processFrame on (lines
\* 239-265), for any prediction and any presence signal of the detector
ProcessFrameTail ==
    /\ \E prediction \in Predictions, presenceInfo \in PresenceSignals :
          /\ prediction # Null => Len(predictionBuffer) < MaxBuffered
          /\ ProcessFrameCall(prediction, presenceInfo)
    /\ SaveBranch
    /\ UNCHANGED <<camVars, detVars, detObs, restartObs, now, loopVars>>
    /\ UNCHANGED <<pushObs, directVars>>

\* the add request of the oldest suspended saveInspection succeeds and
\* saveInspection resumes: part_001 lines 117-130
SaveSettles ==
    /\ awaiting # <<>>
    /\ Head(awaiting).kind = "save"
    /\ stats' = StatsAfterSave(stats, Head(awaiting).result[1])
    /\ awaiting' = Tail(awaiting)
    /\ UNCHANGED <<camVars, detVars, detObs, restartObs, inspVars, inspObs, now, loopVars>>
    /\ UNCHANGED <<autoSave, records>>

\* the clear-history button, app.js lines 171-173: clearInspections is
\* issued and the handler suspends
ClearHistory ==
    /\ Len(awaiting) < MaxPending
    /\ records' = <<>>
    /\ awaiting' = Append(awaiting, [kind |-> "clearHistory", result |-> Null])
    /\ UNCHANGED <<camVars, detVars, detObs, restartObs, inspVars, inspObs, now, loopVars>>
    /\ UNCHANGED <<autoSave, stats>>

\* the clear request of the oldest suspended clear-history handler succeeds
\* and the handler resumes at line 174: resetStats zeroes the statistics and
\* issues its own clear; what follows it (lines 175-176) writes the page only
ClearHistorySettles ==
    /\ awaiting # <<>>
    /\ Head(awaiting).kind = "clearHistory"
    /\ stats' = ZeroStats
    /\ records' = <<>>
    /\ awaiting' = Tail(awaiting)
    /\ UNCHANGED <<camVars, detVars, detObs, restartObs, inspVars, inspObs, now, loopVars>>
    /\ UNCHANGED autoSave

\* the autosave checkbox, app.js line 128
ToggleAutosave ==
    /\ autoSave' = ~autoSave
    /\ UNCHANGED <<camVars, detVars, detObs, restartObs, inspVars, inspObs, now, loopVars>>
    /\ UNCHANGED <<stats, records, awaiting>>

\* app.js line 42, part_001 line 9 and Inspector.init on an empty store
InitStats ==
    /\ autoSave = TRUE
    /\ stats = GetInspectionStats(<<>>)
    /\ records = <<>>
    /\ awaiting = <<>>

\* the same with the autosave checkbox cleared (line 128) before any frame
InitStatsAutosaveOff ==
    /\ autoSave = FALSE
    /\ stats = GetInspectionStats(<<>>)
    /\ records = <<>>
    /\ awaiting = <<>>

InitInspector ==
    /\ state = "idle"
    /\ currentInspection = Null
    /\ predictionBuffer = <<>>
    /\ outcome = NoOutcome
    /\ now = 0
    /\ lastPF = [called |-> FALSE, prediction |-> Null, justEntered |-> FALSE,
                 justLeft |-> FALSE, stateBefore |-> "idle", time |-> 0]
    /\ phase = 0
    /\ cycleSamples = <<>>
    /\ pushLog = <<>>
    /\ pushOverflow = FALSE
    /\ aggResults = <<>>
    /\ manualResult = Null
    /\ manualArg = Null

\* app.js lines 40-45; no training example is stored yet
InitLoop ==
    /\ detectionActive = TRUE
    /\ trainingReady = FALSE
    /\ inFlight = <<>>
    /\ lastLoop = [called |-> FALSE, pending |-> 0]
    /\ lastDeliver = [called |-> FALSE, viaPredict |-> FALSE, olderPending |-> 0]
    /\ lastUi = [op |-> "none", inspectorState |-> "idle"]

Init == InitCamera /\ InitInspector /\ InitLoop /\ InitStats

NextInspector ==
    \/ ProcessFrame
    \/ Tick

SpecDetector == Init /\ [][NextDetector]_vars

SpecInspector == Init /\ [][NextInspector]_vars

NextBuffer == ProcessFrameLogged

SpecBuffer == Init /\ [][NextBuffer]_vars

(***************************************************************************)
(* The aggregator and manualInspect called directly, on an inspector in    *)
(* any of the states processFrame can leave it in: idle with an empty      *)
(* buffer, or inspecting with a buffer of at most MaxAggLen samples.       *)
(***************************************************************************)
AggSamples ==
    { Sample("ok", 90), Sample("scratch", 80), Sample("scratch", 70),
      Sample("7", 60), Sample("12", 50) }

AggBuffers == UNION {[1..n -> AggSamples] : n \in 0..MaxAggLen}

AggPredictions == {Null} \cup {Some(x) : x \in AggSamples}

InitAggregator ==
    /\ InitCamera
    /\ predictionBuffer \in AggBuffers
    /\ state \in (IF predictionBuffer = <<>> THEN {"idle", "inspecting"}
                  ELSE {"inspecting"})
    /\ currentInspection =
          (IF state = "inspecting" THEN Some(NewInspection(0)) ELSE Null)
    /\ outcome = NoOutcome
    /\ now = 0
    /\ lastPF = [called |-> FALSE, prediction |-> Null, justEntered |-> FALSE,
                 justLeft |-> FALSE, stateBefore |-> "idle", time |-> 0]
    /\ phase = 0
    /\ cycleSamples = <<>>
    /\ pushLog = <<>>
    /\ pushOverflow = FALSE
    /\ aggResults = <<>>
    /\ manualResult = Null
    /\ manualArg = Null
    /\ InitLoop
    /\ InitStats

\* _getAggregatedResult, lines 70-100, draining the buffer as it counts
GetAggregatedResultDraining ==
    /\ Len(aggResults) < MaxAggCalls
    /\ aggResults' = Append(aggResults, Aggregate(predictionBuffer))
    /\ predictionBuffer' =
          (IF predictionBuffer = <<>> THEN <<>> ELSE Tail(predictionBuffer))
    /\ UNCHANGED <<camVars, detVars, detObs, restartObs, now, loopVars, statVars>>
    /\ UNCHANGED <<state, currentInspection, outcome>>
    /\ UNCHANGED <<lastPF, phase, cycleSamples, pushObs, manualResult, manualArg>>

\* Inspector._getAggregatedResult(), lines 70-100: reads this._predictionBuffer,
\* writes only its locals
GetAggregatedResult ==
    /\ Len(aggResults) < MaxAggCalls
    /\ aggResults' = Append(aggResults, Aggregate(predictionBuffer))
    /\ UNCHANGED <<camVars, detVars, detObs, restartObs, now, loopVars, statVars>>
    /\ UNCHANGED <<inspVars, lastPF, phase, cycleSamples, pushObs>>
    /\ UNCHANGED <<manualResult, manualArg>>

\* manualInspect, lines 137-144
ManualInspectResult(prediction) ==
    IF prediction = Null THEN Null
    ELSE Some([label |-> prediction[1].label,
               confidence |-> prediction[1].confidence,
               isDefective |-> prediction[1].label # "ok",
               defectType |-> IF prediction[1].label # "ok"
                              THEN Some(prediction[1].label) ELSE Null,
               status |-> IF prediction[1].label = "ok" THEN "ok" ELSE "defective"])

\* manualInspect, lines 136-145, emptying the buffer as the exit step does
ManualInspectClearing ==
    /\ \E prediction \in AggPredictions :
          /\ manualResult' = Some(ManualInspectResult(prediction))
          /\ manualArg' = Some(prediction)
          /\ predictionBuffer' = <<>>
    /\ UNCHANGED <<camVars, detVars, detObs, restartObs, now, loopVars, statVars>>
    /\ UNCHANGED <<state, currentInspection, outcome>>
    /\ UNCHANGED <<lastPF, phase, cycleSamples, pushObs, aggResults>>

\* Inspector.manualInspect(prediction)
ManualInspect ==
    /\ \E prediction \in AggPredictions :
          /\ manualResult' = Some(ManualInspectResult(prediction))
          /\ manualArg' = Some(prediction)
    /\ UNCHANGED <<camVars, detVars, detObs, restartObs, now, loopVars, statVars>>
    /\ UNCHANGED <<inspVars, lastPF, phase, cycleSamples, pushObs, aggResults>>

NextAggregator ==
    \/ GetAggregatedResult
    \/ ManualInspect

SpecAggregator == InitAggregator /\ [][NextAggregator]_vars

(***************************************************************************)
(* The frame loop of app.js.  loop (lines 206-216) runs on every animation *)
(* frame and calls the async processFrame (lines 221-277) without awaiting *)
(* it; processFrame suspends at await detector.predict(frame) and the next *)
(* loop callback may run before it resumes.                                *)
(***************************************************************************)
\* the belt empty and the belt with a product on it
AppFrames == {[obj |-> 0, bg |-> 10], [obj |-> 4000, bg |-> 10]}

\* what the awaited predict gives: null (lines 107-111) or a prediction
AppPredictions == {Null, Some(Sample("ok", 90))}

\* loop, line 209: the frame is evaluated
LoopRuns == detectionActive /\ isActive

\* processFrame, line 231-233: predict is called and awaited
PredictAwaited == trainingReady /\ CameraReady

\* a loop frame whose processFrame reaches insp.processFrame without
\* suspending (isTrainingReady() false or captureFrame() null): lines 227-239
LoopFrameDirect ==
    /\ LoopRuns
    /\ ~PredictAwaited
    /\ \E f \in AppFrames : Detect(f)
    /\ ProcessFrameCall(Null, presence')
    /\ lastLoop' = [called |-> TRUE, pending |-> Len(inFlight)]
    /\ lastDeliver' = [called |-> TRUE, viaPredict |-> FALSE,
                       olderPending |-> Len(inFlight)]
    /\ SaveBranch
    /\ UNCHANGED <<camVars, wasStopped, restarted, now, pushObs, directVars>>
    /\ UNCHANGED <<detectionActive, trainingReady, inFlight, lastUi>>

\* a loop frame whose processFrame suspends at await detector.predict:
\* lines 227-234
LoopFramePredict ==
    /\ LoopRuns
    /\ PredictAwaited
    /\ Len(inFlight) < MaxInFlight
    /\ \E f \in AppFrames : Detect(f)
    /\ inFlight' = Append(inFlight, presence')
    /\ lastLoop' = [called |-> TRUE, pending |-> Len(inFlight)]
    /\ UNCHANGED <<camVars, wasStopped, restarted, inspVars, inspObs, now>>
    /\ UNCHANGED <<detectionActive, trainingReady, lastDeliver, lastUi>>
    /\ UNCHANGED statVars

\* predict settles for the oldest suspended processFrame, which resumes:
\* lines 234-239
PredictResolve ==
    /\ inFlight # <<>>
    /\ \E prediction \in AppPredictions :
          ProcessFrameCall(prediction, Head(inFlight))
    /\ inFlight' = Tail(inFlight)
    /\ lastDeliver' = [called |-> TRUE, viaPredict |-> TRUE, olderPending |-> 0]
    /\ SaveBranch
    /\ UNCHANGED <<camVars, detVars, detObs, restartObs, now, pushObs, directVars>>
    /\ UNCHANGED <<detectionActive, trainingReady, lastLoop, lastUi>>

\* the detection toggle, lines 119-124
ToggleDetection ==
    /\ detectionActive' = ~detectionActive
    /\ UNCHANGED <<camVars, detVars, detObs, restartObs, inspVars, inspObs, now>>
    /\ UNCHANGED <<trainingReady, inFlight, lastLoop, lastDeliver, lastUi>>
    /\ UNCHANGED statVars

\* the reset button, lines 134-139, calling Inspector.resetStats
\* (part_001 lines 147-150), which zeroes this.stats and issues the clear of
\* the store; what runs when the clear has succeeded (line 137) writes the
\* page only, so no caller is left waiting
ResetStats ==
    /\ stats' = ZeroStats
    /\ records' = <<>>
    /\ lastUi' = [op |-> "resetStats", inspectorState |-> state]
    /\ UNCHANGED <<camVars, detVars, detObs, restartObs, inspVars, inspObs, now>>
    /\ UNCHANGED <<detectionActive, trainingReady, inFlight, lastLoop, lastDeliver>>
    /\ UNCHANGED <<autoSave, awaiting>>

\* the clear-training button (part_000 lines 252-257) calling
\* DefectDetector.clearAll (part_002 lines 207-212)
ClearAll ==
    /\ trainingReady' = FALSE
    /\ lastUi' = [op |-> "clearAll", inspectorState |-> state]
    /\ UNCHANGED <<camVars, detVars, detObs, restartObs, inspVars, inspObs, now>>
    /\ UNCHANGED <<detectionActive, inFlight, lastLoop, lastDeliver>>
    /\ UNCHANGED statVars

\* training examples are added until two classes have one (part_002
\* lines 75-80 and 133-138)
AddExamples ==
    /\ ~trainingReady
    /\ trainingReady' = TRUE
    /\ UNCHANGED <<camVars, detVars, detObs, restartObs, inspVars, inspObs, now>>
    /\ UNCHANGED <<detectionActive, inFlight, lastLoop, lastDeliver, lastUi>>
    /\ UNCHANGED statVars

NextApp ==
    \/ LoopFrameDirect
    \/ LoopFramePredict
    \/ PredictResolve
    \/ ToggleDetection
    \/ ResetStats
    \/ ClearAll
    \/ AddExamples

\* the state in which startDetectionLoop is called (lines 114-117): start()
\* has returned true, so lines 32-36 have run and the video is playing (and
\* keeps playing: readyState stays at HAVE_ENOUGH_DATA)
InitStarted ==
    /\ InitInspector
    /\ InitLoop
    /\ isActive = TRUE
    /\ stream = TRUE
    /\ srcObject = TRUE
    /\ videoReadyState = 4
    /\ startPc = "idle"
    /\ prevFrame = Null
    /\ exitFrameCount = 0
    /\ productPresent = FALSE
    /\ presence = AllFalse
    /\ lastCall = NoCall
    /\ quietRun = 0
    /\ everMotion = FALSE
    /\ allSame = TRUE
    /\ readyCalls = 0
    /\ edgeLog = <<>>
    /\ edgeCount = 0
    /\ wasStopped = FALSE
    /\ restarted = FALSE
    /\ callsAfterRestart = 0

\* the loop is started with the autosave checkbox cleared
InitApp == InitStarted /\ InitStatsAutosaveOff

SpecApp == InitApp /\ [][NextApp]_vars

(***************************************************************************)
(* The frame loop when every awaited predict settles before the next loop  *)
(* callback: detectProductPresence and Inspector.processFrame run          *)
(* back-to-back for each frame (app.js lines 227-239).                     *)
(***************************************************************************)
FrameStep ==
    /\ LoopRuns
    /\ \E f \in AppFrames : Detect(f)
    /\ \E prediction \in (IF PredictAwaited THEN AppPredictions ELSE {Null}) :
          ProcessFrameCall(prediction, presence')
    /\ lastLoop' = [called |-> TRUE, pending |-> 0]
    /\ lastDeliver' = [called |-> TRUE, viaPredict |-> PredictAwaited,
                       olderPending |-> 0]
    /\ SaveBranch
    /\ UNCHANGED <<camVars, wasStopped, restarted, now, pushObs, directVars>>
    /\ UNCHANGED <<detectionActive, trainingReady, inFlight, lastUi>>

NextFrame ==
    \/ FrameStep
    \/ AddExamples
    \/ StartCall
    \/ GetUserMediaResolve
    \/ PlayResolve
    \/ Stop
    \/ VideoReadyStateChange

\* the page is loaded and the autosave checkbox is cleared
InitFrame == InitCamera /\ InitInspector /\ InitLoop /\ InitStatsAutosaveOff

SpecFrame == InitFrame /\ [][NextFrame]_vars

(***************************************************************************)
(* The saves of the frame loop and the statistics: the camera runs, every  *)
(* frame delivers some prediction and some presence signal, and the user   *)
(* resets the statistics, clears the history and switches autosave.        *)
(***************************************************************************)
InitSaving == InitStarted /\ InitStats

NextSaving ==
    \/ ProcessFrameTail
    \/ SaveSettles
    \/ ResetStats
    \/ ClearHistory
    \/ ClearHistorySettles
    \/ ToggleAutosave

SpecSaving == InitSaving /\ [][NextSaving]_vars

(***************************************************************************)
(* The saves of the frame loop while time passes between the frames.       *)
(***************************************************************************)
NextDuration ==
    \/ ProcessFrameTail
    \/ SaveSettles
    \/ Tick

SpecDuration == InitSaving /\ [][NextDuration]_vars

(***************************************************************************)
(* Properties of CameraManager.detectProductPresence (SpecDetector).       *)
(* A call is "evaluated" when it compared the frame with the previous one; *)
(* quietRun counts the evaluated no-motion frames since the last evaluated *)
(* frame with motion, independently of _exitFrameCount.                    *)
(***************************************************************************)
QuietCall == lastCall.compared /\ ~lastCall.motion

\* C1: once present, the exitFrameRequired-th consecutive evaluated no-motion
\* frame, and only that one, returns justLeft, with present = false; every
\* later no-motion frame returns present = false and justLeft = false.
C1_LeavesAfterRequiredFrames ==
    (QuietCall /\ everMotion) =>
        /\ (quietRun = exitFrameRequired) =>
              (presence.justLeft /\ ~presence.present /\ ~productPresent)
        /\ (quietRun # exitFrameRequired) => ~presence.justLeft
        /\ (quietRun > exitFrameRequired) =>
              (~presence.present /\ ~productPresent)

C1_Witness ==
    /\ QuietCall
    /\ everMotion
    /\ quietRun = exitFrameRequired
    /\ presence.justLeft

\* C2: while present, each frame of a run of at most exitFrameRequired - 1
\* consecutive no-motion frames returns present = true and justLeft = false
\* and the detector stays present.
C2_ShortRunsAbsorbed ==
    (QuietCall /\ everMotion /\ quietRun <= exitFrameRequired - 1) =>
        /\ presence.present
        /\ ~presence.justLeft
        /\ ~presence.justEntered
        /\ productPresent

C2_Witness ==
    /\ QuietCall
    /\ everMotion
    /\ quietRun = exitFrameRequired - 1
    /\ presence.present
    /\ productPresent

\* C3: no call returns justEntered and justLeft both true.
C3_NeverBothEdges == ~(presence.justEntered /\ presence.justLeft)

C3_Witness == lastCall.compared /\ presence.justLeft /\ lastCall.presentBefore

\* C4: the first call of a new detector that gets a frame returns all-false
\* whatever the frame, changes no hysteresis state and stores the frame as
\* the previous frame; the second such call is the first one to compare.
C4_ColdStart ==
    /\ (readyCalls = 0) => (prevFrame = Null /\ presence = AllFalse)
    /\ (lastCall.ready /\ readyCalls = 1) =>
          /\ ~lastCall.compared
          /\ presence = AllFalse
          /\ prevFrame = lastCall.frame
          /\ prevFrame # Null
          /\ ~productPresent
          /\ exitFrameCount = 0
    /\ (lastCall.ready /\ readyCalls >= 2) => lastCall.compared

C4_Witness ==
    /\ lastCall.ready
    /\ readyCalls = 1
    /\ prevFrame = Some([obj |-> 4000, bg |-> 10])

\* C5: after stop() followed by start(), the first call that gets a frame
\* returns all-false whatever the detector's state was before the stop
\* (it does not compare: comparison starts from the second call).
C5_RestartIsColdStart ==
    (restarted /\ lastCall.ready /\ callsAfterRestart = 1) =>
        presence = AllFalse

\* C6: while no frame fed to a fresh detector differs from the first one,
\* every call returns all-false.
C6_StillSceneStaysAbsent ==
    allSame => (presence = AllFalse /\ ~productPresent /\ exitFrameCount = 0)

C6_Witness == allSame /\ lastCall.compared /\ readyCalls >= 2

\* C7: a call that detects motion sets the exit counter to 0 and returns
\* present = true, with justEntered exactly when the detector was absent
\* before; so the counter of a present detector equals the length of the
\* current run of no-motion frames.
C7_MotionResetsExitCounter ==
    /\ lastCall.motion =>
          /\ exitFrameCount = 0
          /\ productPresent
          /\ presence.present
          /\ presence.justEntered = ~lastCall.presentBefore
          /\ ~presence.justLeft
    /\ productPresent => (exitFrameCount = quietRun)

C7_Witness ==
    /\ lastCall.motion
    /\ lastCall.presentBefore
    /\ lastCall.countBefore = exitFrameRequired - 1
    /\ exitFrameCount = 0

(***************************************************************************)
(* Properties of Inspector.processFrame (SpecInspector).                   *)
(***************************************************************************)
\* C8: processFrame in state idle with justEntered moves to inspecting,
\* creates a new inspection started now, leaves in the buffer only the
\* sample of that call (if any), and returns stateChanged = true.
C8_EntryStartsInspection ==
    (lastPF.called /\ lastPF.stateBefore = "idle" /\ lastPF.justEntered
        /\ ~lastPF.justLeft) =>
        /\ state = "inspecting"
        /\ currentInspection = Some(NewInspection(lastPF.time))
        /\ predictionBuffer = lastPF.prediction
        /\ outcome.stateChanged
        /\ ~outcome.inspectionComplete

C8_Witness ==
    /\ lastPF.called
    /\ lastPF.stateBefore = "idle"
    /\ lastPF.justEntered
    /\ lastPF.prediction # Null
    /\ lastPF.time = MaxTime
    /\ state = "inspecting"

\* the buffer as it stands in a call that delivers prediction
BufferInCall(buf, prediction) ==
    IF prediction = Null THEN buf
    ELSE IF Len(buf) + 1 > bufferSize
         THEN Tail(Append(buf, prediction[1]))
         ELSE Append(buf, prediction[1])

\* the step is a processFrame call made while inspecting, with justLeft
ExitCall ==
    /\ state = "inspecting"
    /\ lastPF'.called
    /\ lastPF'.stateBefore = "inspecting"
    /\ lastPF'.justLeft
    /\ ~lastPF'.justEntered
    /\ state' = "idle"

\* C9: processFrame in state inspecting with justLeft returns
\* inspectionComplete, stateChanged and finalResult = the aggregate of the
\* buffer as it stands in that call, and leaves the inspector idle with an
\* empty buffer and no current inspection.
C9_ExitFinalizes ==
    /\ [](lastPF.called /\ lastPF.stateBefore = "inspecting" /\ lastPF.justLeft
            /\ ~lastPF.justEntered =>
            /\ state = "idle"
            /\ currentInspection = Null
            /\ predictionBuffer = <<>>
            /\ outcome.inspectionComplete
            /\ outcome.stateChanged
            /\ outcome.finalResultSet)
    /\ [][ExitCall =>
            outcome'.finalResult =
                Aggregate(BufferInCall(predictionBuffer, lastPF'.prediction))]_vars

C9_Witness ==
    /\ lastPF.called
    /\ lastPF.stateBefore = "inspecting"
    /\ lastPF.justLeft
    /\ outcome.inspectionComplete
    /\ outcome.finalResult # Null
    /\ outcome.finalResult[1].label = "scratch"

\* C10: in the cycle justEntered, CycleSamples sample calls, justLeft from
\* idle: stateChanged is returned at entry and on no sample call, every
\* sample call returns a currentResult, only the last call returns
\* inspectionComplete, its finalResult is the aggregate of the samples, and
\* afterwards the buffer is empty and the state idle.
C10_FullCycle ==
    /\ (phase = 1) =>
          /\ outcome.stateChanged
          /\ ~outcome.inspectionComplete
          /\ state = "inspecting"
    /\ (phase \in 2..(CycleSamples + 1)) =>
          /\ ~outcome.stateChanged
          /\ ~outcome.inspectionComplete
          /\ outcome.currentResult # Null
          /\ outcome.currentResult = Aggregate(cycleSamples)
          /\ state = "inspecting"
    /\ (phase = CycleSamples + 2) =>
          /\ outcome.inspectionComplete
          /\ outcome.finalResult # Null
          /\ outcome.finalResult = Aggregate(cycleSamples)
          /\ Len(cycleSamples) = CycleSamples
          /\ predictionBuffer = <<>>
          /\ currentInspection = Null
          /\ state = "idle"

C10_Witness ==
    /\ phase = CycleSamples + 2
    /\ outcome.inspectionComplete
    /\ outcome.finalResult # Null
    /\ \E i, j \in 1..Len(cycleSamples) : cycleSamples[i] # cycleSamples[j]

\* the step is a processFrame call (lastPF' then holds its inputs)
ProcessFrameStep ==
    /\ lastPF'.called
    /\ lastPF'.stateBefore = state
    /\ <<inspVars, lastPF>>' # <<inspVars, lastPF>>

\* the three transitions: idle with justEntered, inspecting with a sample,
\* inspecting with justLeft
DefinedTransition(call) ==
    \/ call.stateBefore = "idle" /\ call.justEntered
    \/ call.stateBefore = "inspecting" /\ call.prediction # Null
    \/ call.stateBefore = "inspecting" /\ call.justLeft

\* C11: a processFrame call that is none of the three transitions leaves
\* state, current inspection and buffer unchanged and returns stateChanged =
\* false and inspectionComplete = false (justEntered while inspecting
\* included).
C11_OtherCallsChangeNothing ==
    [][(ProcessFrameStep /\ ~DefinedTransition(lastPF')) =>
          /\ UNCHANGED <<state, currentInspection, predictionBuffer>>
          /\ ~outcome'.stateChanged
          /\ ~outcome'.inspectionComplete]_vars

\* C12: the current inspection exists exactly when the state is inspecting,
\* and the buffer is empty whenever the state is idle.
C12_InspectionIffInspecting ==
    /\ (currentInspection # Null) <=> (state = "inspecting")
    /\ (state = "idle") => (predictionBuffer = <<>>)

C12_Witness ==
    /\ lastPF.called
    /\ lastPF.stateBefore = "idle"
    /\ lastPF.prediction # Null
    /\ ~lastPF.justEntered
    /\ state = "idle"
    /\ predictionBuffer = <<>>

(***************************************************************************)
(* Properties of the prediction buffer (SpecBuffer).                       *)
(***************************************************************************)
\* C13: after every processFrame call the buffer holds at most bufferSize
\* samples.
C13_BufferBounded == Len(predictionBuffer) <= bufferSize

C13_Witness ==
    /\ Len(predictionBuffer) = bufferSize
    /\ ~pushOverflow
    /\ Len(pushLog) = PushLogCap

LastN(seq, n) ==
    IF Len(seq) <= n THEN seq ELSE SubSeq(seq, Len(seq) - n + 1, Len(seq))

\* C14: the buffer holds exactly the last bufferSize samples pushed in the
\* current inspection, in arrival order (10 pushes leave samples 3..10).
C14_BufferKeepsLastN ==
    (state = "inspecting" /\ ~pushOverflow) =>
        predictionBuffer = LastN(pushLog, bufferSize)

C14_Witness ==
    /\ state = "inspecting"
    /\ ~pushOverflow
    /\ Len(pushLog) = bufferSize + 2
    /\ predictionBuffer = SubSeq(pushLog, 3, bufferSize + 2)
    /\ pushLog[1] # pushLog[3]
    /\ pushLog[2] # pushLog[bufferSize + 2]

\* C18: an inspection that ends with no buffered sample returns
\* inspectionComplete = true with finalResult = null (the aggregate of the
\* empty buffer), without failing.
C18_EmptyInspectionYieldsNull ==
    [][(ExitCall /\ BufferInCall(predictionBuffer, lastPF'.prediction) = <<>>) =>
          /\ outcome'.inspectionComplete
          /\ outcome'.finalResultSet
          /\ outcome'.finalResult = Null]_vars

C18_Witness ==
    /\ lastPF.called
    /\ lastPF.stateBefore = "inspecting"
    /\ lastPF.justLeft
    /\ lastPF.prediction = Null
    /\ outcome.inspectionComplete
    /\ outcome.finalResultSet
    /\ outcome.finalResult = Null
    /\ state = "idle"

\* the state and flags a call must give, from the state before and the
\* edges alone
EdgeState(call) ==
    IF call.justLeft /\ (call.justEntered \/ call.stateBefore = "inspecting")
    THEN "idle"
    ELSE IF call.justEntered THEN "inspecting" ELSE call.stateBefore

EdgeComplete(call) ==
    call.justLeft /\ (call.justEntered \/ call.stateBefore = "inspecting")

\* C20: the presence-driven transitions do not depend on the sample: with or
\* without one, justEntered in idle enters inspecting and justLeft in
\* inspecting completes the inspection and returns to idle.
C20_EdgesActWithoutSample ==
    lastPF.called =>
        /\ state = EdgeState(lastPF)
        /\ outcome.inspectionComplete = EdgeComplete(lastPF)
        /\ outcome.stateChanged = (lastPF.justEntered \/ EdgeComplete(lastPF))
        /\ (lastPF.stateBefore = "idle" /\ lastPF.justEntered /\ ~lastPF.justLeft)
              => (state = "inspecting" /\ currentInspection # Null)
        /\ (lastPF.stateBefore = "inspecting" /\ lastPF.justLeft)
              => (state = "idle" /\ currentInspection = Null)

C20_Witness ==
    /\ lastPF.called
    /\ lastPF.prediction = Null
    /\ lastPF.stateBefore = "inspecting"
    /\ lastPF.justLeft
    /\ state = "idle"
    /\ outcome.inspectionComplete
    /\ outcome.finalResult # Null

(***************************************************************************)
(* Properties of Inspector._getAggregatedResult and manualInspect          *)
(* (SpecAggregator).                                                       *)
(***************************************************************************)
AggReturned == {aggResults[i] : i \in 1..Len(aggResults)}

LabelsOf(buf) == {buf[i].label : i \in 1..Len(buf)}

PositionsOf(buf, label) == {i \in 1..Len(buf) : buf[i].label = label}

FirstPosition(buf, label) ==
    CHOOSE i \in PositionsOf(buf, label) : \A j \in PositionsOf(buf, label) : i <= j

TopLabels(buf) ==
    {l \in LabelsOf(buf) :
        \A k \in LabelsOf(buf) :
            Cardinality(PositionsOf(buf, l)) >= Cardinality(PositionsOf(buf, k))}

\* C15: for every non-empty buffer the aggregated label has the highest vote
\* count, and among the labels sharing that count it is the one whose first
\* sample is earliest in the buffer.
C15_TieGoesToFirstSeen ==
    \A r \in AggReturned :
        predictionBuffer # <<>> =>
            /\ r # Null
            /\ r[1].label \in TopLabels(predictionBuffer)
            /\ \A t \in TopLabels(predictionBuffer) :
                  FirstPosition(predictionBuffer, r[1].label)
                      <= FirstPosition(predictionBuffer, t)

RECURSIVE SumAt(_, _)
SumAt(buf, positions) ==
    IF positions = {} THEN 0
    ELSE LET i == CHOOSE x \in positions : TRUE
         IN  buf[i].confidence + SumAt(buf, positions \ {i})

\* C16: the aggregated confidence is the arithmetic mean of the confidences
\* of the samples carrying the winning label only; the buffer
\* [ok 0.9, scratch 0.8, scratch 0.7] gives scratch, 0.75, defective.
C16_ConfidenceIsMeanOfWinners ==
    \A r \in AggReturned :
        /\ predictionBuffer # <<>> =>
              /\ r # Null
              /\ r[1].confidence.den > 0
              /\ r[1].confidence.num
                    * Cardinality(PositionsOf(predictionBuffer, r[1].label))
                  = r[1].confidence.den
                    * SumAt(predictionBuffer,
                            PositionsOf(predictionBuffer, r[1].label))
        /\ predictionBuffer = <<Sample("ok", 90), Sample("scratch", 80),
                                Sample("scratch", 70)>> =>
              /\ r # Null
              /\ r[1].label = "scratch"
              /\ r[1].confidence = [num |-> 75, den |-> 1]
              /\ r[1].isDefective

C16_Witness ==
    /\ predictionBuffer = <<Sample("ok", 90), Sample("scratch", 80),
                            Sample("scratch", 70)>>
    /\ aggResults # <<>>

WellFormedVerdict(v) ==
    /\ v.isDefective = (v.label # "ok")
    /\ v.defectType = (IF v.isDefective THEN Some(v.label) ELSE Null)
    /\ v.status = (IF v.isDefective THEN "defective" ELSE "ok")

\* C17: every verdict returned by the aggregator or by manualInspect has
\* isDefective exactly when the label is not "ok", defectType equal to the
\* label when defective and null otherwise, and status "defective" when
\* defective and "ok" otherwise.
C17_VerdictFieldsAgree ==
    /\ \A r \in AggReturned : r # Null => WellFormedVerdict(r[1])
    /\ (manualResult # Null /\ manualResult[1] # Null)
          => WellFormedVerdict(manualResult[1][1])

C17_Witness ==
    /\ manualResult # Null
    /\ manualResult[1] # Null
    /\ manualResult[1][1].label = "ok"
    /\ \E r \in AggReturned : r # Null /\ r[1].isDefective

\* C19: a call of the aggregator leaves the PredictionBuffer, the inspector
\* state and the current Inspection as they were, and the calls made on the
\* same buffer contents all return equal verdicts.
C19_AggregatorIsPure ==
    /\ [](\A r1, r2 \in AggReturned : r1 = r2)
    /\ [][aggResults' # aggResults =>
             UNCHANGED <<state, currentInspection, predictionBuffer>>]_vars

C19_Witness ==
    /\ Len(aggResults) = MaxAggCalls
    /\ aggResults[1] # Null
    /\ Len(predictionBuffer) > 1

(***************************************************************************)
(* Further properties of CameraManager.detectProductPresence               *)
(* (SpecDetector).                                                         *)
(***************************************************************************)
\* C24: a call on a source that is not ready returns a value the caller can
\* tell from the value of a call on a ready source that shows no motion.
C24_NotReadyIsDistinct ==
    (lastCall.ready /\ lastCall.compared /\ ~lastCall.motion) =>
        presence # AllFalse

\* C27: the edges returned alternate, the first one being justEntered, and
\* every call made on a ready camera after a justEntered and before the next
\* justLeft returns present = true.
C27_EdgesAlternate ==
    /\ \A i \in 1..(Len(edgeLog) - 1) : edgeLog[i] # edgeLog[i + 1]
    /\ (edgeCount \in 1..MaxEdges) => (edgeLog[1] = "entered")
    /\ (lastCall.ready /\ edgeLog # <<>> /\ edgeLog[Len(edgeLog)] = "entered")
          => presence.present

C27_Witness ==
    /\ edgeCount = MaxEdges + 1
    /\ edgeLog[Len(edgeLog)] = "entered"
    /\ lastCall.ready
    /\ ~lastCall.motion
    /\ presence.present
    /\ ~presence.justEntered

\* C28 as stated: from one call to the next the returned present flag falls
\* only on a call returning justLeft and rises only on a call returning
\* justEntered, whether or not the camera was ready at each call.
C28_PresentFollowsEdges ==
    [][/\ (presence.present /\ ~presence'.present) => presence'.justLeft
       /\ (~presence.present /\ presence'.present) => presence'.justEntered]_vars

\* C28 amended: the same, for two consecutive calls both made on a ready
\* camera; a call on a camera that is not ready returns present = false
\* without justLeft, and the ready call after it may return present = true
\* without justEntered.
C28_PresentFollowsEdgesWhenReady ==
    [][(lastCall.ready /\ lastCall'.ready) =>
          /\ (presence.present /\ ~presence'.present) => presence'.justLeft
          /\ (~presence.present /\ presence'.present) => presence'.justEntered]_vars

C28_Witness ==
    /\ lastCall.ready
    /\ presence.justEntered
    /\ presence.present
    /\ edgeCount = MaxEdges + 1
    /\ restarted

\* C30: the exit counter lies in 0..exitFrameRequired, and is below
\* exitFrameRequired whenever the detector's present flag is true.
C30_ExitCounterInRange ==
    /\ exitFrameCount \in 0..exitFrameRequired
    /\ productPresent => (exitFrameCount < exitFrameRequired)

C30_Witness ==
    /\ exitFrameCount = exitFrameRequired
    /\ ~productPresent
    /\ lastCall.ready
    /\ lastCall.compared
    /\ ~lastCall.motion
    /\ ~lastCall.presentBefore

FailedPredictNoEdge ==
    /\ inFlight # <<>>
    /\ inFlight' = Tail(inFlight)
    /\ lastPF'.prediction = Null
    /\ ~Head(inFlight).justEntered
    /\ ~Head(inFlight).justLeft

\* C21: a frame whose classification fails (predict gives null) and whose
\* presence signal has no edge leaves the PredictionBuffer, the inspector
\* state, the current Inspection and the detector's present flag, exit
\* counter and previous frame as they were.
C21_FailedPredictTouchesNothing ==
    [][FailedPredictNoEdge =>
          /\ UNCHANGED <<predictionBuffer, state, currentInspection>>
          /\ UNCHANGED <<productPresent, exitFrameCount, prevFrame>>]_vars

C21_Witness ==
    /\ lastDeliver.called
    /\ lastDeliver.viaPredict
    /\ lastPF.prediction = Null
    /\ ~lastPF.justEntered
    /\ ~lastPF.justLeft
    /\ state = "inspecting"
    /\ predictionBuffer # <<>>
    /\ productPresent
    /\ exitFrameCount > 0

\* C23: when the detector is called for a frame, no earlier frame is still
\* waiting for its call of the inspector, and when the inspector is called
\* for a frame no earlier frame is still waiting: detection and inspection
\* of one frame are over before detection of the next frame starts.
C23_FrameSynchronous ==
    /\ lastLoop.called => (lastLoop.pending = 0)
    /\ lastDeliver.called => (lastDeliver.olderPending = 0)

\* C25: resetStats and clearAll run only while the inspector is idle.
C25_ResetsOnlyWhenIdle ==
    (lastUi.op \in {"resetStats", "clearAll"}) => (lastUi.inspectorState = "idle")

\* C29: whenever no frame is being processed, the inspector is inspecting
\* exactly when the detector's _productPresent is true.
C29_InspectorFollowsDetector ==
    (inFlight = <<>>) => ((state = "inspecting") <=> productPresent)

(***************************************************************************)
(* Detector and inspector called back-to-back (SpecFrame).                 *)
(***************************************************************************)
\* some processFrame call made in the current state leaves the inspector in
\* state target
CallLeadsTo(target) ==
    \E prediction \in Predictions, presenceInfo \in PresenceSignals :
        ProcessFrameResult(Machine, prediction, presenceInfo, now).m.state = target

C31_EntryPushFinalizeOrder ==
    [][ProcessFrameStep =>
          /\ (lastPF'.justEntered /\ ~lastPF'.justLeft /\ lastPF'.prediction # Null)
                => /\ predictionBuffer' = lastPF'.prediction
                   /\ outcome'.currentResult # Null
                   /\ outcome'.currentResult[1].label = lastPF'.prediction[1].label
          /\ (lastPF'.justLeft /\ ~lastPF'.justEntered /\ state = "inspecting"
                  /\ lastPF'.prediction # Null)
                => /\ outcome'.finalResult # Null
                   /\ outcome'.finalResult = outcome'.currentResult
                   /\ predictionBuffer = <<>> =>
                         outcome'.finalResult[1].label = lastPF'.prediction[1].label]_vars

C31_Witness ==
    /\ lastPF.called
    /\ lastPF.stateBefore = "inspecting"
    /\ lastPF.justLeft
    /\ lastPF.prediction = Some(Sample("scratch", 80))
    /\ outcome.finalResult # Null
    /\ outcome.finalResult = outcome.currentResult
    /\ outcome.finalResult[1].label = "scratch"
    /\ phase = 0

(***************************************************************************)
(* Saving and statistics (SpecSaving, and SpecDuration for the durations). *)
(***************************************************************************)
\* the step is a processFrame call that completes an inspection with a verdict
CompletingCall ==
    /\ state = "inspecting"
    /\ state' = "idle"
    /\ outcome'.inspectionComplete
    /\ outcome'.finalResult # Null

\* the step is the resumption of a suspended saveInspection
SaveResumes ==
    /\ awaiting # <<>>
    /\ Head(awaiting).kind = "save"
    /\ awaiting' = Tail(awaiting)

\* C32: a frame whose outcome has inspectionComplete and a non-null
\* finalResult while autoSave is on appends exactly one record to the store
\* and suspends exactly one saveInspection; no other step appends a record or
\* starts a save; and the resumption of each suspended saveInspection, and
\* nothing else, raises stats.total, by exactly 1.
C32_SavedOncePerCompletion ==
    [][/\ (CompletingCall /\ autoSave)
            => /\ Len(records') = Len(records) + 1
               /\ SubSeq(records', 1, Len(records)) = records
               /\ records'[Len(records')].status = outcome'.finalResult[1].status
               /\ awaiting' = Append(awaiting, [kind |-> "save",
                                                result |-> outcome'.finalResult])
       /\ ~(CompletingCall /\ autoSave)
            => /\ Len(records') <= Len(records)
               /\ Len(awaiting') > Len(awaiting)
                     => awaiting'[Len(awaiting')].kind # "save"
       /\ SaveResumes => stats'.total = stats.total + 1
       /\ stats'.total > stats.total => SaveResumes]_vars

C32_Witness ==
    /\ autoSave
    /\ Len(records) = 2
    /\ awaiting = <<>>
    /\ stats.total = 2
    /\ outcome.inspectionComplete
    /\ outcome.finalResult # Null

RECURSIVE SumOver(_, _)
SumOver(f, keys) ==
    IF keys = {} THEN 0
    ELSE LET k == CHOOSE x \in keys : TRUE
         IN  f[k] + SumOver(f, keys \ {k})

\* C33: whatever saves and resets have run, stats.total = stats.ok +
\* stats.defective and the category counts add up to stats.defective.
C33_StatsAddUp ==
    /\ stats.total = stats.ok + stats.defective
    /\ SumOver(stats.categories, DOMAIN stats.categories) = stats.defective

C33_Witness ==
    /\ lastUi.op = "resetStats"
    /\ stats.ok = 1
    /\ stats.defective = 1
    /\ CategoryCount(stats.categories, "scratch") = 1
    /\ awaiting = <<>>

\* C34: when no saveInspection and no clear-history handler is suspended,
\* the total, ok and defective counts of Inspector.stats are those that
\* getInspectionStats computes from the records of the store.
C34_StatsMatchStore ==
    awaiting = <<>> =>
        /\ stats.total = GetInspectionStats(records).total
        /\ stats.ok = GetInspectionStats(records).ok
        /\ stats.defective = GetInspectionStats(records).defective

\* C35: the record saved for a completed inspection has as duration the time
\* from the startTime of that inspection to the save.
C35_DurationIsElapsed ==
    [][(CompletingCall /\ Len(records') = Len(records) + 1)
          => /\ currentInspection # Null
             /\ records'[Len(records')].duration
                   = records'[Len(records')].timestamp
                     - currentInspection[1].startTime]_vars

====
